---------------------------- MODULE Spec2Model ----------------------------
(***************************************************************************)
(* Model of apps/web/src-tauri/src/lib.rs: the macOS traffic-light         *)
(* (close / miniaturize / zoom button) repositioning state machine.        *)
(*                                                                         *)
(* Threads: "main" is the UI run loop (setup, the closure scheduled by the *)
(* delayed adjustment, AppKit's own relayout, and every notification that  *)
(* AppKit posts); "timer" is the thread spawned by                         *)
(* schedule_macos_traffic_lights_initial_adjustment; "poster" is a thread  *)
(* other than main that posts a notification: the observers are registered *)
(* with queue = None, so a block runs synchronously on the posting thread. *)
(* Spec has AppKit's delivery only (every notification posted on main);    *)
(* SpecAnyThread adds posts from the "poster" thread.                      *)
(*                                                                         *)
(* Each handler is a sequence of steps, one per statement with an effect;  *)
(* a registry access is two steps: Mutex::lock(), then the map operation   *)
(* together with the drop of the guard at the end of the statement.        *)
(***************************************************************************)
EXTENDS Integers, FiniteSets, Sequences, TLC

\* ---------------------------------------------------------------- constants

\* y_offset and x_offset passed at lib.rs:33, 35 and 38 (6.0, 6.0)
YOffset == 6
XOffset == 6

\* Start notifications are delivered only while every button is displaced by
\* fewer than MaxDisplacement offsets from its default frame (keeps frames finite).
MaxDisplacement == 3

Buttons == {"close", "min", "zoom"}

\* Frame origins AppKit gives the three buttons when it lays out the title bar.
DefaultFrame ==
    [b \in Buttons |->
        [x |-> CASE b = "close" -> 7 [] b = "min" -> 27 [] OTHER -> 47,
         y |-> 6]]

\* app.get_webview_window("main"): the only label the program uses
WindowLabel == "main"

Threads == {"main", "timer", "poster"}

StartKind == "NSWindowWillStartLiveResize"
EndKinds ==
    {"NSWindowDidEndLiveResize", "NSWindowDidEnterFullScreen", "NSWindowDidExitFullScreen"}
NotificationKinds == {StartKind} \cup EndKinds

\* What notification.object() can hold: the window, nothing, or a non-window.
NotificationObjects == {"window", "none", "notWindow"}

\* The observers are registered with object = Some(ns_window): the centre
\* delivers only notifications whose object is that window.
DeliveredObjects == {"window"}

VARIABLES
    registry,        \* HashMap<String, bool> behind the Mutex: label -> dirty
    lockHolder,      \* thread holding the registry Mutex, or "none"
    pc,              \* position of each thread
    cur,             \* per thread: the notification being handled (on the main
                     \* thread with the frames and alphas it found), and the
                     \* button the running alpha / offset call has reached
                     \* (btn; held: its frame() has been read into origin)
    frame,           \* frame origin of each button
    alpha,           \* alphaValue of each button (0 or 1)
    present,         \* buttons for which standardWindowButton returns Some
    windowAlive,     \* window.ns_window() is Ok
    installed,       \* the four observers are registered
    closurePending,  \* the delayed closure is queued on the main thread
    uiWriters,       \* threads that have written a frame or an alpha
    regWriters,      \* threads that have written the registry
    handlerApplies,  \* offset applications by handlers since the last start
    lastHandled,     \* the last notification a block finished handling: its kind,
                     \* the flag its get read, whether the buttons were visible,
                     \* and whether the block resolved the window or returned early
    stacked,         \* offset applications since the last relayout or start
    planner,         \* apply_window_size_from_screen_width: monitor, ratio, result
    regTest          \* registry contract: value last set per id, and the last get

vars == <<registry, lockHolder, pc, cur, frame, alpha, present, windowAlive,
          installed, closurePending, uiWriters, regWriters, handlerApplies,
          lastHandled, stacked, planner, regTest>>

\* ------------------------------------------------------------ pure functions

\* lib.rs:296-299: the frame origin moved by the offset
move_button(f) == [x |-> f.x + XOffset, y |-> f.y - YOffset]

\* Mutant of is_..._dirty_by_label: unwrap_or(true) for an absent label.
is_macos_traffic_lights_offset_dirty_by_label_DefaultTrue(reg, label) ==
    IF label \in DOMAIN reg THEN reg[label] ELSE TRUE

is_macos_traffic_lights_offset_dirty_by_label(reg, label) ==
    IF label \in DOMAIN reg THEN reg[label] ELSE FALSE

\* Mutant of set_macos_traffic_lights_offset_dirty_by_label: the write reaches
\* every entry of the map.
set_macos_traffic_lights_offset_dirty_by_label_AllLabels(reg, label, dirty) ==
    [l \in DOMAIN reg \cup {label} |-> dirty]

set_macos_traffic_lights_offset_dirty_by_label(reg, label, dirty) ==
    [l \in (DOMAIN reg) \cup {label} |-> IF l = label THEN dirty ELSE reg[l]]

\* Mutant of ObserverBlock: &start_block passed to all four registrations.
ObserverBlock_AllStart(kind) ==
    "start_block"

\* Which block each observer is registered with (lib.rs:210-233).
ObserverBlock(kind) ==
    IF kind = StartKind THEN "start_block" ELSE "end_block"

\* ------------------------------------------------------- geometry planner

\* const MAX_INIT_WIDTH / MAX_INIT_HEIGHT (lib.rs:54-55)
MAX_INIT_WIDTH == 1980
MAX_INIT_HEIGHT == 1280

\* current_monitor() / primary_monitor() returning None
NoMonitor == [some |-> FALSE, width |-> 0, height |-> 0, x |-> 0, y |-> 0]

\* Monitors the planner is applied to: size in physical pixels, and position.
PlanWidths == {0, 1, 4, 5, 10, 25, 45, 350, 1280, 1920, 1925, 1980, 2560, 3840}
PlanHeights == {0, 1, 5, 800, 1085, 1200, 1440, 2160}
PlanOrigins == {<<0, 0>>, <<-1920, 0>>, <<2560, -360>>}
PlanMonitors ==
    {[some |-> TRUE, width |-> w, height |-> h, x |-> o[1], y |-> o[2]] :
        w \in PlanWidths, h \in PlanHeights, o \in PlanOrigins}

\* width_ratio in hundredths: pct stands for the f64 nearest to pct / 100
\* (80 is the 0.8 of lib.rs:21)
PlanRatios == {0, 5, 10, 33, 35, 58, 70, 80, 90, 95, 100, 500}
SetupRatio == 80

\* The monitors of a run of the program: (current, primary).
MainMonitor == [some |-> TRUE, width |-> 1920, height |-> 1200, x |-> 0, y |-> 0]
SetupMonitors == {<<MainMonitor, MainMonitor>>, <<NoMonitor, MainMonitor>>,
                  <<NoMonitor, NoMonitor>>}

\* no set_size / set_position call yet: the framework's defaults
DefaultGeometry == [set |-> FALSE, width |-> 0, height |-> 0, x |-> 0, y |-> 0]

Min(a, b) == IF a <= b THEN a ELSE b

\* f64::round of n / d for n >= 0, d > 0: half away from zero. It is what the
\* f64 products with 0.9 (the f64 lies above the decimal) and with 10/16
\* (exact in binary) round to.
RoundDiv(n, d) == (2 * n + d) \div (2 * d)

RECURSIVE Pow2(_)
Pow2(n) == IF n <= 0 THEN 1 ELSE 2 * Pow2(n - 1)

RECURSIVE Pow2Mod100(_)
Pow2Mod100(n) == IF n <= 0 THEN 1 ELSE (2 * Pow2Mod100(n - 1)) % 100

RECURSIVE Log2Floor(_)
Log2Floor(n) == IF n < 2 THEN 0 ELSE 1 + Log2Floor(n \div 2)

\* The f64 nearest to pct / 100 (10 <= pct <= 100) is M * 2^-(52 + e) with
\* 2^52 <= M < 2^53; this is e: 0 for 1.0, 1 for [0.5, 1), ... 4 for [0.1, 0.125).
f64_neg_exponent(pct) ==
    IF pct >= 100 THEN 0
    ELSE IF pct >= 50 THEN 1
    ELSE IF pct >= 25 THEN 2
    ELSE IF pct >= 13 THEN 3
    ELSE 4

\* How far that f64 lies from pct / 100, in hundredths of its last binary
\* digit: 100 * M - pct * 2^(52 + e), between -50 and 50; negative when the
\* f64 is below the decimal (0.58, 0.7), positive when above (0.8, 0.9, 0.1).
f64_ratio_error(pct) ==
    LET m == (pct * Pow2Mod100(52 + f64_neg_exponent(pct))) % 100
    IN  IF m < 50 THEN 0 - m ELSE 100 - m

\* Mutant of f64_mul_round: the product is rounded as the decimal one.
f64_mul_round_Decimal(w, pct) == RoundDiv(w * pct, 100)

\* lib.rs:72: ((w as f64) * ratio).round() for the f64 ratio nearest to
\* pct / 100. Away from a half the f64 product rounds as the decimal one. At a
\* decimal product of x + 0.5 the f64 product is x + 0.5 exactly (rounded to
\* x + 1) unless the ratio lies below the decimal by more than half the
\* spacing of the f64s under x + 0.5, and then the result is x.
f64_mul_round(w, pct) ==
    IF (w * pct) % 100 # 50
    THEN RoundDiv(w * pct, 100)
    ELSE LET x == (w * pct - 50) \div 100
             k == f64_ratio_error(pct)
             j == IF x = 0
                  THEN f64_neg_exponent(pct) - 3
                  ELSE Log2Floor(2 * x + 1) - 2 + f64_neg_exponent(pct)
         IN  IF k >= 0 \/ w * (0 - k) * Pow2(0 - j) <= 100 * Pow2(j)
             THEN x + 1
             ELSE x

\* f64::clamp(0.1, 1.0), in hundredths
clamp_ratio(pct) == IF pct < 10 THEN 10 ELSE IF pct > 100 THEN 100 ELSE pct

\* u32::saturating_sub
saturating_sub(a, b) == IF a >= b THEN a - b ELSE 0

\* lib.rs:58-64: the current monitor, else the primary one, else none
resolve_monitor(current, primary) == IF current.some THEN current ELSE primary

\* Mutant of plan_window: the width is not capped by 90% of the screen.
plan_window_NoScreenCap(monitor, pct) ==
    LET width_ratio == clamp_ratio(pct)
        target_width ==
            Min(f64_mul_round(monitor.width, width_ratio), MAX_INIT_WIDTH)
        max_height == Min(RoundDiv(monitor.height * 9, 10), MAX_INIT_HEIGHT)
        aspect_height == RoundDiv(target_width * 10, 16)
        target_height == IF aspect_height > max_height THEN max_height ELSE aspect_height
    IN  [set |-> TRUE,
         width |-> target_width,
         height |-> target_height,
         x |-> monitor.x + (saturating_sub(monitor.width, target_width) \div 2),
         y |-> monitor.y + (saturating_sub(monitor.height, target_height) \div 2)]

\* Mutant of plan_window: the height is not clamped to the maximum height.
plan_window_NoHeightClamp(monitor, pct) ==
    LET width_ratio == clamp_ratio(pct)
        max_width == RoundDiv(monitor.width * 9, 10)
        target_width ==
            Min(Min(f64_mul_round(monitor.width, width_ratio), max_width), MAX_INIT_WIDTH)
        target_height == RoundDiv(target_width * 10, 16)
    IN  [set |-> TRUE,
         width |-> target_width,
         height |-> target_height,
         x |-> monitor.x + (saturating_sub(monitor.width, target_width) \div 2),
         y |-> monitor.y + (saturating_sub(monitor.height, target_height) \div 2)]

\* lib.rs:66-98 for a resolved monitor: the size and position it sets
plan_window(monitor, pct) ==
    LET width_ratio == clamp_ratio(pct)
        max_width == RoundDiv(monitor.width * 9, 10)
        target_width ==
            Min(Min(f64_mul_round(monitor.width, width_ratio), max_width), MAX_INIT_WIDTH)
        max_height == Min(RoundDiv(monitor.height * 9, 10), MAX_INIT_HEIGHT)
        aspect_height == RoundDiv(target_width * 10, 16)
        target_height == IF aspect_height > max_height THEN max_height ELSE aspect_height
    IN  [set |-> TRUE,
         width |-> target_width,
         height |-> target_height,
         x |-> monitor.x + (saturating_sub(monitor.width, target_width) \div 2),
         y |-> monitor.y + (saturating_sub(monitor.height, target_height) \div 2)]

\* lib.rs:52-99: returns without effect when no monitor is resolved
apply_window_size_from_screen_width(geom, current, primary, pct) ==
    LET monitor == resolve_monitor(current, primary)
    IN  IF monitor.some THEN plan_window(monitor, pct) ELSE geom

\* ------------------------------------------------------ registry contract

\* window labels used to exercise the registry's get / set
RegIds == {"main", "settings", "about", "prefs"}

\* no get since the last set
NoGet == [some |-> FALSE, id |-> "main", value |-> FALSE]

\* ------------------------------------------------------------------ helpers

\* The order in which both functions go through the buttons (lib.rs:251-259,
\* lib.rs:308-318): close, miniaturize, zoom.
ButtonOrder == <<"close", "min", "zoom">>

NoOrigin == [x |-> 0, y |-> 0]

NoCall == [kind |-> "none", obj |-> "none", dirty |-> FALSE,
           frame0 |-> DefaultFrame, alpha0 |-> [b \in Buttons |-> 1],
           btn |-> 1, held |-> FALSE, origin |-> NoOrigin]

\* the button thread t's call has reached; whether it is the last one
Button(t) == ButtonOrder[cur[t].btn]
LastButton(t) == cur[t].btn = Len(ButtonOrder)

\* t's locals once its call is done with the current button
NextButton(t) ==
    [cur[t] EXCEPT !.btn = IF LastButton(t) THEN 1 ELSE cur[t].btn + 1,
                   !.held = FALSE, !.origin = NoOrigin]

\* One AppKit call of apply_macos_traffic_lights_offset_nswindow on thread t
\* (lib.rs:294-318), none of them under a lock: standardWindowButton returning
\* None (the button is skipped), button.frame() (read into the local), or
\* button.setFrameOrigin of the local moved by the offset. `done` is the pc
\* after the last button.
apply_macos_traffic_lights_offset_nswindow(t, done) ==
    IF Button(t) \notin present
    THEN /\ cur' = [cur EXCEPT ![t] = NextButton(t)]
         /\ pc' = [pc EXCEPT ![t] = IF LastButton(t) THEN done ELSE pc[t]]
         /\ UNCHANGED <<frame, uiWriters>>
    ELSE IF ~cur[t].held
    THEN /\ cur' = [cur EXCEPT ![t].held = TRUE, ![t].origin = frame[Button(t)]]
         /\ UNCHANGED <<frame, uiWriters, pc>>
    ELSE /\ frame' = [frame EXCEPT ![Button(t)] = move_button(cur[t].origin)]
         /\ uiWriters' = uiWriters \cup {t}
         /\ cur' = [cur EXCEPT ![t] = NextButton(t)]
         /\ pc' = [pc EXCEPT ![t] = IF LastButton(t) THEN done ELSE pc[t]]

\* handlerApplies and stacked count applications up to MaxDisplacement
Counted(n) == IF n < MaxDisplacement THEN n + 1 ELSE n

\* the call thread t is about to make is the last of the offset function
LastCall(t) == LastButton(t) /\ (Button(t) \notin present \/ cur[t].held)

\* One step of set_macos_traffic_lights_alpha_nswindow on thread t
\* (lib.rs:251-259): standardWindowButton for the next button and, when it is
\* there, setAlphaValue(a). No lock is held.
set_macos_traffic_lights_alpha_nswindow(t, a) ==
    IF Button(t) \in present
    THEN /\ alpha' = [alpha EXCEPT ![Button(t)] = a]
         /\ uiWriters' = uiWriters \cup {t}
    ELSE UNCHANGED <<alpha, uiWriters>>

Dirty == is_macos_traffic_lights_offset_dirty_by_label(registry, WindowLabel)

Displacement(b) == (frame[b].x - DefaultFrame[b].x) \div XOffset

\* pc values at which a thread waits in Mutex::lock(), and where it goes next
LockPcs == {"inst_lock", "cl_lock", "st_lock", "en_get_lock", "en_set_lock"}
AfterLock(p) ==
    CASE p = "inst_lock"   -> "inst_set"
      [] p = "cl_lock"     -> "cl_set"
      [] p = "st_lock"     -> "st_set"
      [] p = "en_get_lock" -> "en_get"
      [] p = "en_set_lock" -> "en_set"
\* pc values at which a thread is inside a single get or set, lock held
CriticalPcs == {"inst_set", "cl_set", "st_set", "en_get", "en_set"}

\* ---------------------------------------------------------------------- Init

\* everything but the planner's inputs and the registry's content
InitProgram ==
    /\ lockHolder = "none"
    /\ pc = [t \in Threads |->
                CASE t = "main" -> "setup_size"
                  [] t = "timer" -> "unspawned"
                  [] OTHER -> "idle"]
    /\ cur = [t \in {"main", "poster"} |-> NoCall]
    /\ frame = DefaultFrame
    /\ alpha = [b \in Buttons |-> 1]
    /\ present \in SUBSET Buttons
    /\ windowAlive = TRUE
    /\ installed = FALSE
    /\ closurePending = FALSE
    /\ uiWriters = {}
    /\ regWriters = {}
    /\ handlerApplies = 0
    /\ lastHandled = [kind |-> "none", dirty |-> FALSE, visible |-> FALSE,
                      resolved |-> TRUE]
    /\ stacked = 0
    /\ regTest = [written |-> [i \in RegIds |-> "unset"], got |-> NoGet]

\* the registry is empty when the process starts (lib.rs:323-329)
Init ==
    /\ InitProgram
    /\ registry = [l \in {} |-> FALSE]
    /\ \E m \in SetupMonitors :
          planner = [current |-> m[1], primary |-> m[2], ratio |-> SetupRatio,
                     geom |-> DefaultGeometry]

\* --------------------------------------------------------------- Mutex::lock

\* Mutex::lock() inside is_..._dirty_by_label / set_..._dirty_by_label
Acquire(t) ==
    /\ pc[t] \in LockPcs
    /\ lockHolder = "none"
    /\ lockHolder' = t
    /\ pc' = [pc EXCEPT ![t] = AfterLock(pc[t])]
    /\ UNCHANGED <<registry, cur, frame, alpha, present, windowAlive, installed,
                   closurePending, uiWriters, regWriters, handlerApplies, lastHandled,
                   stacked, planner, regTest>>

\* map.insert(label, dirty) and the drop of the guard
RegistrySet(t, dirty, next) ==
    /\ lockHolder = t
    /\ registry' = set_macos_traffic_lights_offset_dirty_by_label(registry, WindowLabel, dirty)
    /\ lockHolder' = "none"
    /\ regWriters' = regWriters \cup {t}
    /\ pc' = [pc EXCEPT ![t] = next]

\* --------------------------------------------------------------------- setup

\* run(), lib.rs:21: apply_window_size_from_screen_width(&window, 0.8); the
\* title calls of lib.rs:27-31 follow and change nothing modelled here
SetupSize ==
    /\ pc["main"] = "setup_size"
    /\ planner' = [planner EXCEPT !.geom =
                     apply_window_size_from_screen_width(
                         planner.geom, planner.current, planner.primary, planner.ratio)]
    /\ pc' = [pc EXCEPT !["main"] = "setup_offset"]
    /\ UNCHANGED <<registry, lockHolder, cur, frame, alpha, present, windowAlive,
                   installed, closurePending, uiWriters, regWriters, handlerApplies,
                   lastHandled, stacked, regTest>>

\* run(), lib.rs:33: apply_macos_traffic_lights_offset(&window, 6.0, 6.0)
SetupOffset ==
    /\ pc["main"] = "setup_offset"
    /\ stacked' = IF LastCall("main") THEN Counted(stacked) ELSE stacked
    /\ apply_macos_traffic_lights_offset_nswindow("main", "setup_spawn")
    /\ UNCHANGED <<registry, lockHolder, alpha, present, windowAlive, installed,
                   closurePending, regWriters, handlerApplies, lastHandled,
                   planner, regTest>>

\* lib.rs:35 and 143: thread::spawn; then lib.rs:38 enters install (169-175)
SetupSpawn ==
    /\ pc["main"] = "setup_spawn"
    /\ pc' = [pc EXCEPT !["main"] = IF windowAlive THEN "inst_lock" ELSE "idle",
                        !["timer"] = "sleep"]
    /\ UNCHANGED <<registry, lockHolder, cur, frame, alpha, present, windowAlive,
                   installed, closurePending, uiWriters, regWriters, handlerApplies, lastHandled,
                   stacked, planner, regTest>>

\* lib.rs:177: set_macos_traffic_lights_offset_dirty_by_label(&window_label, false)
InstallSet ==
    /\ pc["main"] = "inst_set"
    /\ RegistrySet("main", FALSE, "inst_observe")
    /\ UNCHANGED <<cur, frame, alpha, present, windowAlive, installed,
                   closurePending, uiWriters, handlerApplies, lastHandled,
                   stacked, planner, regTest>>

\* lib.rs:209-240: the four addObserverForName_object_queue_usingBlock calls
InstallObserve ==
    /\ pc["main"] = "inst_observe"
    /\ installed' = TRUE
    /\ pc' = [pc EXCEPT !["main"] = "idle"]
    /\ UNCHANGED <<registry, lockHolder, cur, frame, alpha, present, windowAlive,
                   closurePending, uiWriters, regWriters, handlerApplies, lastHandled,
                   stacked, planner, regTest>>

\* ------------------------------------------------- delayed initial adjustment

\* lib.rs:145: thread::sleep(120 ms) returns
TimerWake ==
    /\ pc["timer"] = "sleep"
    /\ pc' = [pc EXCEPT !["timer"] = "hop"]
    /\ UNCHANGED <<registry, lockHolder, cur, frame, alpha, present, windowAlive,
                   installed, closurePending, uiWriters, regWriters, handlerApplies, lastHandled,
                   stacked, planner, regTest>>

\* lib.rs:148: run_on_main_thread(closure); the thread then ends
TimerHop ==
    /\ pc["timer"] = "hop"
    /\ closurePending' = TRUE
    /\ pc' = [pc EXCEPT !["timer"] = "done"]
    /\ UNCHANGED <<registry, lockHolder, cur, frame, alpha, present, windowAlive,
                   installed, uiWriters, regWriters, handlerApplies, lastHandled,
                   stacked, planner, regTest>>

\* the main run loop takes the queued closure
RunClosure ==
    /\ pc["main"] = "idle"
    /\ closurePending
    /\ closurePending' = FALSE
    /\ pc' = [pc EXCEPT !["main"] = "cl_apply"]
    /\ UNCHANGED <<registry, lockHolder, cur, frame, alpha, present, windowAlive,
                   installed, uiWriters, regWriters, handlerApplies, lastHandled,
                   stacked, planner, regTest>>

\* lib.rs:149: apply_macos_traffic_lights_offset(&window_for_main, ...)
ClosureApply ==
    /\ pc["main"] = "cl_apply"
    /\ IF windowAlive
       THEN /\ stacked' = IF LastCall("main") THEN Counted(stacked) ELSE stacked
            /\ apply_macos_traffic_lights_offset_nswindow("main", "cl_lock")
       ELSE /\ pc' = [pc EXCEPT !["main"] = "cl_lock"]
            /\ UNCHANGED <<stacked, frame, uiWriters, cur>>
    /\ UNCHANGED <<registry, lockHolder, alpha, present, windowAlive, installed,
                   closurePending, regWriters, handlerApplies, lastHandled,
                   planner, regTest>>

\* lib.rs:150: set_macos_traffic_lights_offset_dirty_by_label(&label_for_main, false)
ClosureSet ==
    /\ pc["main"] = "cl_set"
    /\ RegistrySet("main", FALSE, "idle")
    /\ UNCHANGED <<cur, frame, alpha, present, windowAlive, installed,
                   closurePending, uiWriters, handlerApplies, lastHandled,
                   stacked, planner, regTest>>

\* ----------------------------------------------------- notification handlers

\* Mutant of Deliver: a block that cannot resolve the window hides the
\* buttons all the same.
Deliver_UnresolvedHides(t, kind, obj) ==
    /\ installed
    /\ windowAlive
    /\ pc[t] = "idle"
    /\ (kind = StartKind \/ t # "main")
          => \A b \in present : Displacement(b) < MaxDisplacement
    /\ IF obj = "window"
       THEN /\ pc' = [pc EXCEPT ![t] =
                        IF ObserverBlock(kind) = "start_block"
                        THEN "st_alpha" ELSE "en_get_lock"]
            /\ cur' = [cur EXCEPT ![t] =
                        [kind |-> kind, obj |-> obj, dirty |-> FALSE,
                         frame0 |-> IF t = "main" THEN frame ELSE DefaultFrame,
                         alpha0 |-> IF t = "main" THEN alpha ELSE NoCall.alpha0,
                         btn |-> 1, held |-> FALSE, origin |-> NoOrigin]]
            /\ handlerApplies' =
                  IF ObserverBlock(kind) = "start_block" THEN 0 ELSE handlerApplies
            /\ stacked' = IF ObserverBlock(kind) = "start_block" THEN 0 ELSE stacked
            /\ UNCHANGED <<lastHandled, alpha>>
       ELSE /\ lastHandled' = [kind |-> kind, dirty |-> FALSE,
                                visible |-> \A b \in present : alpha[b] = 1,
                                resolved |-> FALSE]
            /\ alpha' = [b \in Buttons |-> IF b \in present THEN 0 ELSE alpha[b]]
            /\ UNCHANGED <<pc, cur, handlerApplies, stacked>>
    /\ UNCHANGED <<registry, lockHolder, frame, present, windowAlive,
                   installed, closurePending, uiWriters, regWriters,
                   planner, regTest>>

\* A notification of `kind` with object `obj` is posted on thread t; the
\* registered block starts on that thread and resolves the window
\* (start_block lib.rs:181-187, end_block lib.rs:194-200).
Deliver(t, kind, obj) ==
    /\ installed
    /\ windowAlive
    /\ pc[t] = "idle"
    /\ (kind = StartKind \/ t # "main")
          => \A b \in present : Displacement(b) < MaxDisplacement
    /\ IF obj = "window"
       THEN /\ pc' = [pc EXCEPT ![t] =
                        IF ObserverBlock(kind) = "start_block"
                        THEN "st_alpha" ELSE "en_get_lock"]
            /\ cur' = [cur EXCEPT ![t] =
                        [kind |-> kind, obj |-> obj, dirty |-> FALSE,
                         frame0 |-> IF t = "main" THEN frame ELSE DefaultFrame,
                         alpha0 |-> IF t = "main" THEN alpha ELSE NoCall.alpha0,
                         btn |-> 1, held |-> FALSE, origin |-> NoOrigin]]
            /\ handlerApplies' =
                  IF ObserverBlock(kind) = "start_block" THEN 0 ELSE handlerApplies
            /\ stacked' = IF ObserverBlock(kind) = "start_block" THEN 0 ELSE stacked
            /\ UNCHANGED lastHandled
       ELSE /\ lastHandled' = [kind |-> kind, dirty |-> FALSE,
                                visible |-> \A b \in present : alpha[b] = 1,
                                resolved |-> FALSE]
            /\ UNCHANGED <<pc, cur, handlerApplies, stacked>>
    /\ UNCHANGED <<registry, lockHolder, frame, alpha, present, windowAlive,
                   installed, closurePending, uiWriters, regWriters,
                   planner, regTest>>

\* Mutant of StartAlpha: the start block does not hide the buttons.
StartAlpha_Skipped(t) ==
    /\ pc[t] = "st_alpha"
    /\ pc' = [pc EXCEPT ![t] = "st_lock"]
    /\ UNCHANGED <<registry, lockHolder, cur, frame, alpha, present, windowAlive,
                   installed, closurePending, uiWriters, regWriters, handlerApplies,
                   lastHandled,
                   stacked, planner, regTest>>

\* start_block, lib.rs:188: set_macos_traffic_lights_alpha_nswindow(ns_window, 0.0)
StartAlpha(t) ==
    /\ pc[t] = "st_alpha"
    /\ set_macos_traffic_lights_alpha_nswindow(t, 0)
    /\ cur' = [cur EXCEPT ![t] = NextButton(t)]
    /\ pc' = [pc EXCEPT ![t] = IF LastButton(t) THEN "st_lock" ELSE pc[t]]
    /\ UNCHANGED <<registry, lockHolder, frame, present, windowAlive, installed,
                   closurePending, regWriters, handlerApplies, lastHandled,
                   stacked, planner, regTest>>

\* Mutant of StartSet: the start block writes false instead of true.
StartSet_WritesFalse(t) ==
    /\ pc[t] = "st_set"
    /\ RegistrySet(t, FALSE, "idle")
    /\ lastHandled' = [kind |-> cur[t].kind, dirty |-> FALSE,
                        visible |-> \A b \in present : cur[t].alpha0[b] = 1,
                        resolved |-> TRUE]
    /\ cur' = [cur EXCEPT ![t] = NoCall]
    /\ UNCHANGED <<frame, alpha, present, windowAlive, installed,
                   closurePending, uiWriters, handlerApplies,
                   stacked, planner, regTest>>

\* start_block, lib.rs:189: set_..._dirty_by_label(&start_label, true)
StartSet(t) ==
    /\ pc[t] = "st_set"
    /\ RegistrySet(t, TRUE, "idle")
    /\ lastHandled' = [kind |-> cur[t].kind, dirty |-> FALSE,
                        visible |-> \A b \in present : cur[t].alpha0[b] = 1,
                        resolved |-> TRUE]
    /\ cur' = [cur EXCEPT ![t] = NoCall]
    /\ UNCHANGED <<frame, alpha, present, windowAlive, installed,
                   closurePending, uiWriters, handlerApplies,
                   stacked, planner, regTest>>

\* Mutant of EndGet: the end block repositions whatever the flag says.
EndGet_IgnoresFlag(t) ==
    /\ pc[t] = "en_get"
    /\ lockHolder = t
    /\ LET d == is_macos_traffic_lights_offset_dirty_by_label(registry, WindowLabel)
       IN  /\ cur' = [cur EXCEPT ![t].dirty = d]
           /\ pc' = [pc EXCEPT ![t] = "en_apply"]
    /\ lockHolder' = "none"
    /\ UNCHANGED <<registry, frame, alpha, present, windowAlive, installed,
                   closurePending, uiWriters, regWriters, handlerApplies, lastHandled,
                   stacked, planner, regTest>>

\* Mutant of EndGet: the guard of the get is kept alive over the if body.
EndGet_KeepsLock(t) ==
    /\ pc[t] = "en_get"
    /\ lockHolder = t
    /\ LET d == is_macos_traffic_lights_offset_dirty_by_label(registry, WindowLabel)
       IN  /\ cur' = [cur EXCEPT ![t].dirty = d]
           /\ pc' = [pc EXCEPT ![t] = IF d THEN "en_apply" ELSE "en_alpha"]
    /\ UNCHANGED <<registry, lockHolder, frame, alpha, present, windowAlive, installed,
                   closurePending, uiWriters, regWriters, handlerApplies, lastHandled,
                   stacked, planner, regTest>>

\* end_block, lib.rs:201: if is_..._dirty_by_label(&end_label)
EndGet(t) ==
    /\ pc[t] = "en_get"
    /\ lockHolder = t
    /\ LET d == is_macos_traffic_lights_offset_dirty_by_label(registry, WindowLabel)
       IN  /\ cur' = [cur EXCEPT ![t].dirty = d]
           /\ pc' = [pc EXCEPT ![t] = IF d THEN "en_apply" ELSE "en_alpha"]
    /\ lockHolder' = "none"
    /\ UNCHANGED <<registry, frame, alpha, present, windowAlive, installed,
                   closurePending, uiWriters, regWriters, handlerApplies, lastHandled,
                   stacked, planner, regTest>>

\* Mutant of EndApply: the buttons are shown together with the reposition,
\* before the flag is cleared.
EndApply_ShowsEarly(t) ==
    /\ pc[t] = "en_apply"
    /\ handlerApplies' = IF LastCall(t) THEN Counted(handlerApplies) ELSE handlerApplies
    /\ stacked' = IF LastCall(t) THEN Counted(stacked) ELSE stacked
    /\ apply_macos_traffic_lights_offset_nswindow(t, "en_set_lock")
    /\ alpha' = [b \in Buttons |-> IF b = Button(t) /\ b \in present THEN 1 ELSE alpha[b]]
    /\ UNCHANGED <<registry, lockHolder, present, windowAlive, installed,
                   closurePending, regWriters, lastHandled,
                   planner, regTest>>

\* end_block, lib.rs:202: apply_macos_traffic_lights_offset_nswindow(ns_window, ...)
EndApply(t) ==
    /\ pc[t] = "en_apply"
    /\ handlerApplies' = IF LastCall(t) THEN Counted(handlerApplies) ELSE handlerApplies
    /\ stacked' = IF LastCall(t) THEN Counted(stacked) ELSE stacked
    /\ apply_macos_traffic_lights_offset_nswindow(t, "en_set_lock")
    /\ UNCHANGED <<registry, lockHolder, alpha, present, windowAlive, installed,
                   closurePending, regWriters, lastHandled,
                   planner, regTest>>

\* Mutant of EndSet: the end block does not clear the flag.
EndSet_Skipped(t) ==
    /\ pc[t] = "en_set"
    /\ lockHolder = t
    /\ lockHolder' = "none"
    /\ pc' = [pc EXCEPT ![t] = "en_alpha"]
    /\ UNCHANGED <<registry, cur, frame, alpha, present, windowAlive, installed,
                   closurePending, uiWriters, regWriters, handlerApplies, lastHandled,
                   stacked, planner, regTest>>

\* end_block, lib.rs:203: set_..._dirty_by_label(&end_label, false)
EndSet(t) ==
    /\ pc[t] = "en_set"
    /\ RegistrySet(t, FALSE, "en_alpha")
    /\ UNCHANGED <<cur, frame, alpha, present, windowAlive, installed,
                   closurePending, uiWriters, handlerApplies, lastHandled,
                   stacked, planner, regTest>>

\* end_block, lib.rs:205: set_macos_traffic_lights_alpha_nswindow(ns_window, 1.0)
EndAlpha(t) ==
    /\ pc[t] = "en_alpha"
    /\ set_macos_traffic_lights_alpha_nswindow(t, 1)
    /\ IF LastButton(t)
       THEN /\ pc' = [pc EXCEPT ![t] = "idle"]
            /\ lastHandled' = [kind |-> cur[t].kind, dirty |-> cur[t].dirty,
                                visible |-> \A b \in present : cur[t].alpha0[b] = 1,
                                resolved |-> TRUE]
            /\ cur' = [cur EXCEPT ![t] = NoCall]
       ELSE /\ cur' = [cur EXCEPT ![t] = NextButton(t)]
            /\ UNCHANGED <<pc, lastHandled>>
    /\ UNCHANGED <<registry, lockHolder, frame, present, windowAlive, installed,
                   closurePending, regWriters, handlerApplies,
                   stacked, planner, regTest>>

\* --------------------------------------------------------------- environment

\* AppKit lays the title bar out again (on the main thread): every button is
\* back at its default frame (the reason lib.rs:34 and :37 reposition at all).
SystemRelayout ==
    /\ windowAlive
    /\ pc["main"] = "idle"
    /\ \E b \in present : frame[b] # DefaultFrame[b]
    /\ frame' = [b \in Buttons |-> IF b \in present THEN DefaultFrame[b] ELSE frame[b]]
    /\ stacked' = 0
    /\ UNCHANGED <<registry, lockHolder, pc, cur, alpha, present, windowAlive,
                   installed, closurePending, uiWriters, regWriters, handlerApplies, lastHandled,
                   planner, regTest>>

\* The window is closed (on the main thread): window.ns_window() fails from now on
\* and no further notification is posted for it.
CloseWindow ==
    /\ windowAlive
    /\ pc["main"] = "idle"
    /\ windowAlive' = FALSE
    /\ UNCHANGED <<registry, lockHolder, pc, cur, frame, alpha, present,
                   installed, closurePending, uiWriters, regWriters, handlerApplies, lastHandled,
                   stacked, planner, regTest>>

\* ------------------------------------------------------------- specifications

\* AppKit posts a window notification on the main thread.
DeliverOnMain ==
    \E kind \in NotificationKinds, obj \in DeliveredObjects : Deliver("main", kind, obj)

\* Some other thread posts a notification naming the window: one that runs
\* start_block or one that runs end_block (the three end-type kinds run the
\* same block, so one of them stands for all off the main thread).
OffMainKinds == {StartKind, "NSWindowDidEndLiveResize"}

DeliverOffMain ==
    \E kind \in OffMainKinds, obj \in DeliveredObjects : Deliver("poster", kind, obj)

MainStep ==
    \/ SetupSize
    \/ SetupOffset
    \/ SetupSpawn
    \/ Acquire("main")
    \/ InstallSet
    \/ InstallObserve
    \/ RunClosure
    \/ ClosureApply
    \/ ClosureSet
    \/ StartAlpha("main")
    \/ StartSet("main")
    \/ EndGet("main")
    \/ EndApply("main")
    \/ EndSet("main")
    \/ EndAlpha("main")

TimerStep ==
    \/ TimerWake
    \/ TimerHop

PosterStep ==
    \/ Acquire("poster")
    \/ StartAlpha("poster")
    \/ StartSet("poster")
    \/ EndGet("poster")
    \/ EndApply("poster")
    \/ EndSet("poster")
    \/ EndAlpha("poster")

Next ==
    \/ MainStep
    \/ TimerStep
    \/ DeliverOnMain
    \/ SystemRelayout
    \/ CloseWindow

Spec == Init /\ [][Next]_vars

\* With two threads running blocks, the main thread too is given one kind per
\* block, and the title bar is not laid out again: a relayout only puts the
\* frames back, which no race between the threads depends on.
DeliverOnMainRacing ==
    \E kind \in OffMainKinds, obj \in DeliveredObjects : Deliver("main", kind, obj)

NextAnyThread ==
    \/ MainStep
    \/ TimerStep
    \/ DeliverOnMainRacing
    \/ CloseWindow
    \/ DeliverOffMain
    \/ PosterStep

\* The races are the same for every set of buttons: all three are present.
InitAnyThread ==
    Init /\ present = Buttons /\ planner.current = MainMonitor

SpecAnyThread == InitAnyThread /\ [][NextAnyThread]_vars

\* A registered block is invoked on the main thread with a notification whose
\* object is missing or is not a window (the early returns of lib.rs:182-187
\* and lib.rs:195-200).
DeliverUnresolved ==
    \E kind \in NotificationKinds, obj \in NotificationObjects \ DeliveredObjects :
        Deliver("main", kind, obj)

NextAnyObject ==
    \/ Next
    \/ DeliverUnresolved

\* the program with its blocks invoked on every kind of notification object
SpecAnyObject == Init /\ [][NextAnyObject]_vars

\* The registry is shared by every window of the process: entries a window
\* with another label has written, before window "main" is set up.
OtherLabels == {"settings", "about"}

OtherEntries ==
    UNION {[ls -> BOOLEAN] : ls \in SUBSET OtherLabels}

InitTwoWindows ==
    /\ InitProgram
    /\ registry \in OtherEntries
    /\ present = Buttons
    /\ planner = [current |-> MainMonitor, primary |-> MainMonitor,
                  ratio |-> SetupRatio, geom |-> DefaultGeometry]

SpecTwoWindows == InitTwoWindows /\ [][Next]_vars

\* ---------------------------------------------------------- claim vocabulary

\* every button the window has is fully opaque / fully transparent
Visible == \A b \in present : alpha[b] = 1
Hidden == \A b \in present : alpha[b] = 0

\* where one application of the configured offset puts the frames f0
ExpectedFrame(f0) ==
    [b \in Buttons |->
        IF b \in present
        THEN [x |-> f0[b].x + XOffset, y |-> f0[b].y - YOffset]
        ELSE f0[b]]

AtConfiguredOffset == frame = ExpectedFrame(DefaultFrame)

\* the main thread finishes the block it is running
Completes == pc["main"] \in {"st_set", "en_alpha"} /\ pc'["main"] = "idle"

\* the main thread takes a step of the block it is running
MainMoves == pc'["main"] # pc["main"]

\* ------------------------------------------------------------------------ C1

\* C1: whenever the block handling an end-type notification (resize-did-end,
\* enter-fullscreen, exit-fullscreen) finishes, the window's dirty flag is false
\* in the resulting state, whatever notifications came before.
C1_DirtyFalseAfterEnd ==
    [][(Completes /\ cur["main"].kind \in EndKinds) => ~Dirty']_vars

\* an end notification has been handled that found the flag set by a start
C1_Witness ==
    /\ pc["main"] = "idle"
    /\ lastHandled.kind \in EndKinds
    /\ lastHandled.dirty
    /\ ~Dirty

\* ------------------------------------------------------------------------ C2

\* C2: the end block applies the offset only while the dirty flag is true; the
\* handlers apply the offset at most once between two consecutive starts; and an
\* end notification handled while the flag is false goes straight to the opacity
\* write, which leaves every frame and the registry unchanged and sets opacity 1.
C2_NoRepeatedReposition ==
    /\ [](handlerApplies <= 1)
    /\ [](pc["main"] = "en_apply" => Dirty)
    /\ [][(pc["main"] = "en_get" /\ MainMoves /\ ~Dirty)
            => (pc'["main"] = "en_alpha" /\ frame' = frame)]_vars
    /\ [][(pc["main"] = "en_alpha" /\ MainMoves)
            => (frame' = frame /\ registry' = registry /\ Visible')]_vars

\* an end notification was handled although the flag was false, after an
\* earlier end had already repositioned the buttons for the same start
C2_Witness ==
    /\ pc["main"] = "idle"
    /\ lastHandled.kind \in EndKinds
    /\ ~lastHandled.dirty
    /\ handlerApplies = 1
    /\ present = Buttons
    /\ Visible

\* ------------------------------------------------------------------------ C5

\* C5: the start block never changes a button frame, and when it finishes
\* handling a resize-will-start every button has opacity 0 and the window's
\* dirty flag is true.
C5_StartHidesAndMarks ==
    /\ [][(pc["main"] \in {"st_alpha", "st_lock", "st_set"}) => frame' = frame]_vars
    /\ [][(Completes /\ cur["main"].kind = StartKind) => (Hidden' /\ Dirty')]_vars

\* a resize-will-start that arrived while all three buttons were visible has
\* been handled: the buttons are hidden, still at their configured offset
C5_Witness ==
    /\ pc["main"] = "idle"
    /\ lastHandled.kind = StartKind
    /\ lastHandled.visible
    /\ present = Buttons
    /\ Hidden
    /\ Dirty
    /\ AtConfiguredOffset

\* ------------------------------------------------------------------------ C7

\* C7: in every reachable state a true dirty flag implies that every button is
\* hidden; and the flag goes from false to true only by the start block's
\* registry write, taken when the opacity is already 0.
C7_DirtyImpliesHidden ==
    /\ [](Dirty => Hidden)
    /\ [][(~Dirty /\ Dirty')
            => (pc["main"] = "st_set" /\ cur["main"].kind = StartKind /\ Hidden)]_vars

\* the flag is true while the three buttons are hidden and the main thread is idle
C7_Witness ==
    /\ Dirty
    /\ present = Buttons
    /\ Hidden
    /\ pc["main"] = "idle"

\* ------------------------------------------------------------------------ C3

\* C3: once the handlers are installed, exactly one of these holds for the
\* window: the buttons are visible and at the configured offset from their
\* default frame, or the buttons are hidden.
C3_VisibleAtOffsetXorHidden ==
    (installed /\ windowAlive /\ present # {})
        => ((Visible /\ AtConfiguredOffset) # Hidden)

\* ------------------------------------------------------------------------ C4

\* C4: when the block handling an enter-fullscreen notification that arrived
\* while the buttons were visible finishes, the buttons are hidden and the
\* window's dirty flag is true.
C4_EnterFullscreenHidesAndMarks ==
    [][(/\ Completes
        /\ cur["main"].kind = "NSWindowDidEnterFullScreen"
        /\ \A b \in present : cur["main"].alpha0[b] = 1)
            => (Hidden' /\ Dirty')]_vars

\* ------------------------------------------------------------------------ C6

\* the buttons the running call on the main thread is done with
Passed(b) == \E i \in 1..(cur["main"].btn - 1) : ButtonOrder[i] = b

\* C6: an end block whose get read a true flag first applies the offset exactly
\* once, button after button (buttons still hidden, flag still true), then
\* clears the flag (buttons still hidden), and only then sets the opacities to
\* 1, button after button: no opacity is 1 in the block while the flag is true
\* or the frames are not yet repositioned.
C6_RepositionClearShow ==
    /\ [](pc["main"] = "en_apply"
            => (/\ Hidden
                /\ Dirty
                /\ \A b \in Buttons :
                      frame[b] = IF Passed(b)
                                 THEN ExpectedFrame(cur["main"].frame0)[b]
                                 ELSE cur["main"].frame0[b]))
    /\ [](pc["main"] \in {"en_set_lock", "en_set"}
            => (Hidden /\ Dirty /\ frame = ExpectedFrame(cur["main"].frame0)))
    /\ []((pc["main"] = "en_alpha" /\ cur["main"].dirty)
            => (/\ \A b \in present : alpha[b] = IF Passed(b) THEN 1 ELSE 0
                /\ ~Dirty
                /\ frame = ExpectedFrame(cur["main"].frame0)))
    /\ [][(Completes /\ cur["main"].kind \in EndKinds /\ cur["main"].dirty)
            => (Visible' /\ ~Dirty' /\ frame' = ExpectedFrame(cur["main"].frame0))]_vars

\* an exit-fullscreen found the flag true and has repositioned the three
\* buttons and cleared the flag; the opacity write is the step left
C6_Witness ==
    /\ pc["main"] = "en_alpha"
    /\ cur["main"].kind = "NSWindowDidExitFullScreen"
    /\ cur["main"].dirty
    /\ present = Buttons
    /\ frame = ExpectedFrame(cur["main"].frame0)
    /\ ~Dirty
    /\ Hidden

\* ------------------------------------------------------------------------ C9

\* C9: every write of a button frame or opacity is executed by the main thread,
\* and the timer thread never writes the registry.
C9_DecorationOnMainThread ==
    /\ uiWriters \subseteq {"main"}
    /\ "timer" \notin regWriters

\* ----------------------------------------------------------------------- C10

\* a step that ends a single registry get or set and releases the lock
ReleaseStep ==
    \/ InstallSet
    \/ ClosureSet
    \/ \E t \in {"main", "poster"} : StartSet(t) \/ EndGet(t) \/ EndSet(t)

\* C10: a thread holds the registry lock exactly while it is inside one get or
\* one set (never while it applies the offset, writes an opacity, sleeps, hops
\* to the main thread or waits for the lock), and whenever a thread waits for
\* the lock either the lock is free or its holder can take its releasing step:
\* no reachable state is a deadlock on the lock.
C10_LockHeldForSingleAccess ==
    /\ \A t \in Threads : (lockHolder = t) <=> (pc[t] \in CriticalPcs)
    /\ pc["timer"] \in {"sleep", "hop"} => lockHolder # "timer"
    /\ \A t \in Threads :
          pc[t] \in LockPcs => (lockHolder = "none" \/ ENABLED ReleaseStep)

\* the main thread waits for the lock while the poster thread is inside a set
C10_Witness ==
    /\ pc["main"] \in LockPcs
    /\ lockHolder = "poster"
    /\ pc["poster"] = "en_set"

\* ------------------------------------------------------------------------ C8

\* The main run loop keeps running whatever it has started or queued, and the
\* spawned timer thread runs to its end.
LiveSpec == Init /\ [][Next]_vars /\ WF_vars(MainStep) /\ WF_vars(TimerStep)

\* the start block / an end-type notification's block is running on main
StartInProgress == cur["main"].kind = StartKind
EndDelivered == cur["main"].kind \in EndKinds

\* C8: if every handled transition start is eventually followed by the delivery
\* of an end-type notification (resize-did-end, enter-fullscreen or
\* exit-fullscreen), then a true dirty flag leads to a false one and hidden
\* buttons lead to visible ones, under every interleaving of the notifications.
C8_NeverLeftDirtyOrHidden ==
    (StartInProgress ~> EndDelivered)
        => /\ Dirty ~> ~Dirty
           /\ (present # {} /\ Hidden) ~> Visible

\* toggling: an exit-fullscreen found the flag left by a live-resize start,
\* cleared it and showed the three buttons again
C8_Witness ==
    /\ pc["main"] = "idle"
    /\ lastHandled.kind = "NSWindowDidExitFullScreen"
    /\ lastHandled.dirty
    /\ ~lastHandled.visible
    /\ present = Buttons
    /\ Visible
    /\ ~Dirty

\* ----------------------------------------------------------------------- C11

\* set_macos_traffic_lights_offset_dirty_by_label(id, b) called on its own
RegistrySetOp(id, b) ==
    /\ lockHolder = "none"
    /\ registry' = set_macos_traffic_lights_offset_dirty_by_label(registry, id, b)
    /\ regTest' = [written |-> [regTest.written EXCEPT ![id] = IF b THEN "true" ELSE "false"],
                   got |-> NoGet]
    /\ UNCHANGED <<lockHolder, pc, cur, frame, alpha, present, windowAlive, installed,
                   closurePending, uiWriters, regWriters, handlerApplies, lastHandled,
                   stacked, planner>>

\* is_macos_traffic_lights_offset_dirty_by_label(id) called on its own
RegistryGetOp(id) ==
    /\ lockHolder = "none"
    /\ regTest' = [regTest EXCEPT !.got =
                     [some |-> TRUE, id |-> id,
                      value |-> is_macos_traffic_lights_offset_dirty_by_label(registry, id)]]
    /\ UNCHANGED <<registry, lockHolder, pc, cur, frame, alpha, present, windowAlive,
                   installed, closurePending, uiWriters, regWriters, handlerApplies,
                   lastHandled, stacked, planner>>

RegNext ==
    \/ \E id \in RegIds, b \in BOOLEAN : RegistrySetOp(id, b)
    \/ \E id \in RegIds : RegistryGetOp(id)

InitReg == Init /\ present = Buttons /\ planner.current = MainMonitor

\* every sequence of gets and sets over RegIds, from the empty registry
RegSpec == InitReg /\ [][RegNext]_vars

\* C11: after any sequence of gets and sets, a get of an id returns the value
\* of the last set on that id, and false if the id was never set; the value a
\* get returned is the value last set on its id (false if none) as long as no
\* set follows.
C11_GetSetContract ==
    /\ \A id \in RegIds :
          is_macos_traffic_lights_offset_dirty_by_label(registry, id)
              = (regTest.written[id] = "true")
    /\ regTest.got.some
          => regTest.got.value = (regTest.written[regTest.got.id] = "true")

\* a get returned true for an id set to true while another id was set to
\* false and a third was never set
C11_Witness ==
    /\ regTest.got.some
    /\ regTest.got.id = "settings"
    /\ regTest.got.value
    /\ regTest.written["main"] = "false"
    /\ regTest.written["about"] = "unset"
    /\ "about" \notin DOMAIN registry

\* ----------------------------------------------------------------------- C12

\* the delayed closure is running on the main thread
InClosure == pc["main"] \in {"cl_apply", "cl_lock", "cl_set"}

\* C12: when the window is gone before the delayed closure runs, no step of
\* the closure changes a button frame, an opacity or the registry.
C12_ClosedWindowClosureNoOp ==
    [][(InClosure /\ ~windowAlive /\ MainMoves)
          => (frame' = frame /\ alpha' = alpha /\ registry' = registry)]_vars

\* --------------------------------------------------- C13, C14, C19: planner

\* apply_window_size_from_screen_width applied once to every monitor of
\* PlanMonitors with every ratio of PlanRatios
InitPlan ==
    /\ InitProgram
    /\ registry = [l \in {} |-> FALSE]
    /\ present = Buttons
    /\ \E m \in PlanMonitors, r \in PlanRatios :
          planner = [current |-> m, primary |-> NoMonitor, ratio |-> r,
                     geom |-> DefaultGeometry]

PlanNext == SetupSize

PlanSpec == InitPlan /\ [][PlanNext]_vars

\* the monitor the planner used and the geometry it set
Screen == planner.current
Planned == planner.geom

\* C13 as stated: the planned size is at most the exact 90% of the screen
\* (10 * target <= 9 * screen) and at most the platform maxima.
C13_WithinExactNinetyPercent ==
    Planned.set =>
        /\ 10 * Planned.width <= 9 * Screen.width
        /\ Planned.width <= MAX_INIT_WIDTH
        /\ 10 * Planned.height <= 9 * Screen.height
        /\ Planned.height <= MAX_INIT_HEIGHT

\* C13 amended: the planned size is at most 90% of the screen rounded to the
\* nearest pixel (10 * target <= 9 * screen + 5) and at most the platform maxima.
C13_WithinRoundedNinetyPercent ==
    Planned.set =>
        /\ 10 * Planned.width <= 9 * Screen.width + 5
        /\ Planned.width <= MAX_INIT_WIDTH
        /\ 10 * Planned.height <= 9 * Screen.height + 5
        /\ Planned.height <= MAX_INIT_HEIGHT

\* a 1925-pixel-wide screen planned with a ratio above 0.9: the width is
\* round(1732.5) = 1733
C13_Witness ==
    /\ Planned.set
    /\ Screen.width = 1925
    /\ planner.ratio = 100
    /\ Planned.width = 1733

\* The planner's result as the specification states it, in plain integer
\* arithmetic, with the platform maxima as parameters; rounding is to the
\* nearest integer, halves upward.
ClaimedRound(n, d) == (2 * n + d) \div (2 * d)

ClaimedRatio(pct) == IF pct < 10 THEN 10 ELSE IF pct > 100 THEN 100 ELSE pct

ClaimedMin3(a, b, c) ==
    IF a <= b /\ a <= c THEN a ELSE IF b <= c THEN b ELSE c

\* the stated result, given the value taken for round(screen.width * ratio)
ClaimedPlanFrom(screen, ratioWidth, maxWidth, maxHeight) ==
    LET targetWidth ==
            ClaimedMin3(ratioWidth, ClaimedRound(screen.width * 9, 10), maxWidth)
        targetHeight ==
            ClaimedMin3(ClaimedRound(targetWidth * 10, 16),
                        ClaimedRound(screen.height * 9, 10), maxHeight)
    IN  [set |-> TRUE,
         width |-> targetWidth,
         height |-> targetHeight,
         x |-> screen.x + ((screen.width - targetWidth) \div 2),
         y |-> screen.y + ((screen.height - targetHeight) \div 2)]

ClaimedPlan(screen, pct, maxWidth, maxHeight) ==
    ClaimedPlanFrom(screen,
                    ClaimedRound(screen.width * ClaimedRatio(pct), 100),
                    maxWidth, maxHeight)

\* screen.width * ratio is exactly x + 0.5 for an integer x
ExactHalf(screen, pct) == (screen.width * ClaimedRatio(pct)) % 100 = 50
HalfBelow(screen, pct) == (screen.width * ClaimedRatio(pct) - 50) \div 100

\* The planned geometry is the stated one for ratio pct and maxima 1980 and
\* 1280: away from an exact half with round(screen.width * ratio) as stated,
\* at an exact half x + 0.5 with x or x + 1 in its place.
PlannedAsClaimed(pct) ==
    IF ExactHalf(Screen, pct)
    THEN Planned \in {ClaimedPlanFrom(Screen, HalfBelow(Screen, pct), 1980, 1280),
                      ClaimedPlanFrom(Screen, HalfBelow(Screen, pct) + 1, 1980, 1280)}
    ELSE Planned = ClaimedPlan(Screen, pct, 1980, 1280)

\* the worked example: screen {1920,1200,0,0} at ratio 0.8
ExampleHolds ==
    (Planned.set /\ Screen = MainMonitor /\ planner.ratio = 80)
        => Planned = [set |-> TRUE, width |-> 1536, height |-> 960,
                      x |-> 192, y |-> 120]

\* widths the program plans at exact halves (64-bit floating point):
\* 25 * 0.58 = 14.499999999999998, 45 * 0.70 and 350 * 0.35 likewise fall
\* below the half, 5 * 0.7 is 3.5
FloatExamplesHold ==
    Planned.set =>
        /\ (Screen.width = 25 /\ planner.ratio = 58) => Planned.width = 14
        /\ (Screen.width = 45 /\ planner.ratio = 70) => Planned.width = 31
        /\ (Screen.width = 350 /\ planner.ratio = 35) => Planned.width = 122
        /\ (Screen.width = 5 /\ planner.ratio = 70) => Planned.width = 4

\* C14 as stated: the planner's result is the stated formula, in plain
\* arithmetic, with the platform maximum width being 2800, and the worked
\* example holds.
C14_PlanWithMaxWidth2800 ==
    /\ Planned.set =>
          Planned = ClaimedPlan(Screen, planner.ratio, 2800, MAX_INIT_HEIGHT)
    /\ ExampleHolds

\* C14 as stated but for the maximum width, taken as 1980: the stated formula
\* in plain arithmetic.
C14_PlainRoundWithMaxWidth1980 ==
    Planned.set => Planned = ClaimedPlan(Screen, planner.ratio, 1980, 1280)

\* C14 amended: the planner's result is the stated formula with the platform
\* maxima 1980 (width) and 1280 (height), where round(screen.width * ratio) is
\* the stated rounding whenever the product is not an exact half, and x or
\* x + 1 at an exact half x + 0.5 (14 for 25 * 0.58, 31 for 45 * 0.70, 122 for
\* 350 * 0.35, 4 for 5 * 0.7); ratio 0 plans as 0.1 and ratio 5 as 1.0; the
\* worked example holds.
C14_PlanWithMaxWidth1980 ==
    /\ Planned.set => PlannedAsClaimed(planner.ratio)
    /\ (Planned.set /\ planner.ratio = 0) => PlannedAsClaimed(10)
    /\ (Planned.set /\ planner.ratio = 500) => PlannedAsClaimed(100)
    /\ FloatExamplesHold
    /\ ExampleHolds

\* the worked example has been planned
C14_Witness ==
    /\ Planned = [set |-> TRUE, width |-> 1536, height |-> 960,
                  x |-> 192, y |-> 120]
    /\ Screen = MainMonitor
    /\ planner.ratio = 80

\* margins of the planned window inside the screen
LeftMargin == Planned.x - Screen.x
RightMargin == (Screen.x + Screen.width) - (Planned.x + Planned.width)
TopMargin == Planned.y - Screen.y
BottomMargin == (Screen.y + Screen.height) - (Planned.y + Planned.height)

\* C19: the planned window lies inside the screen (size at most the screen's,
\* so the saturating subtraction equals the plain one), and opposite margins
\* differ by at most one pixel.
C19_PlannedInsideScreen ==
    Planned.set =>
        /\ Planned.width <= Screen.width
        /\ Planned.height <= Screen.height
        /\ saturating_sub(Screen.width, Planned.width) = Screen.width - Planned.width
        /\ saturating_sub(Screen.height, Planned.height) = Screen.height - Planned.height
        /\ LeftMargin >= 0 /\ RightMargin >= 0
        /\ TopMargin >= 0 /\ BottomMargin >= 0
        /\ RightMargin - LeftMargin \in {0, 1}
        /\ BottomMargin - TopMargin \in {0, 1}

\* a wide, low screen on a display left of the primary one: the height is
\* clamped by the screen and the window is centred with equal margins
C19_Witness ==
    /\ Planned.set
    /\ Screen.width = 3840 /\ Screen.height = 800 /\ Screen.x = -1920
    /\ Planned.width = 1980 /\ Planned.height = 720
    /\ LeftMargin = 930 /\ RightMargin = 930
    /\ TopMargin = 40 /\ BottomMargin = 40

\* a planned window whose free width is odd
C19_OddMargin == Planned.set /\ RightMargin - LeftMargin = 1

\* ------------------------------------------------- C15: offset never stacked

\* C15: the offset is never applied a second time to a frame that already
\* carries it: without a system relayout or a transition start in between, at
\* most one application has happened and no button is displaced by more than
\* one multiple of the configured offset.
C15_OffsetAppliedOnlyWhenOwed ==
    \A b \in present : ~(stacked >= 2 /\ Displacement(b) >= 2)

\* ------------------------------------------- C16: flag kept during a resize

\* a resize-will-start was the last notification processed and no end block
\* is running: the live resize is in progress
ResizeInProgress ==
    /\ lastHandled.kind = StartKind
    /\ lastHandled.resolved
    /\ \A t \in DOMAIN cur : cur[t].kind \notin EndKinds

\* C16: while a live resize is in progress the window's dirty flag stays
\* true: no step taken before the end block of the matching resize-did-end
\* clears it.
C16_DirtyKeptDuringResize ==
    [][(ResizeInProgress /\ Dirty) => Dirty']_vars

\* ---------------------------------------- C17: resolution failures swallowed

\* a block has just returned early because it could not resolve the window
UnresolvedReturn == lastHandled' # lastHandled /\ ~lastHandled'.resolved

NoMonitorResolved == ~planner.current.some /\ ~planner.primary.some

\* C17: a block that cannot resolve the window changes no opacity, no frame
\* and no flag; a window lacking a button has only that button skipped (the
\* others are hidden and shown, the missing one is never touched); without a
\* monitor the planner sets neither size nor position; and the setup goes on to
\* the next step all the same.
C17_ResolutionFailuresSwallowed ==
    /\ [][UnresolvedReturn
            => (alpha' = alpha /\ frame' = frame /\ registry' = registry
                /\ pc' = pc)]_vars
    /\ [][(pc["main"] = "st_alpha" /\ MainMoves)
            => \A b \in Buttons :
                  alpha'[b] = IF b \in present THEN 0 ELSE alpha[b]]_vars
    /\ [][(pc["main"] = "en_alpha" /\ MainMoves)
            => \A b \in Buttons :
                  alpha'[b] = IF b \in present THEN 1 ELSE alpha[b]]_vars
    /\ [](\A b \in Buttons \ present :
              alpha[b] = 1 /\ frame[b] = DefaultFrame[b])
    /\ [](NoMonitorResolved => planner.geom = DefaultGeometry)
    /\ [][(pc["main"] = "setup_size" /\ MainMoves)
            => pc'["main"] = "setup_offset"]_vars
    /\ [](pc["main"] = "setup_size" => ENABLED SetupSize)

\* no monitor, a window without its zoom button: the setup has completed, a
\* start has hidden the two buttons there are, and a notification without a
\* window has then been swallowed
C17_Witness ==
    /\ NoMonitorResolved
    /\ planner.geom = DefaultGeometry
    /\ installed
    /\ present = {"close", "min"}
    /\ alpha = [b \in Buttons |-> IF b = "zoom" THEN 1 ELSE 0]
    /\ Dirty
    /\ ~lastHandled.resolved
    /\ lastHandled.kind = "NSWindowDidEndLiveResize"

\* ------------------------------------------------ C18: per-window isolation

\* the registry's entry for a label: "unset", or the flag it holds
Entry(reg, label) ==
    IF label \in DOMAIN reg THEN IF reg[label] THEN "true" ELSE "false" ELSE "unset"

\* C18: every step of window "main" (install, start block, end block, delayed
\* adjustment) leaves the entry of every other label as it was, and adds no
\* entry but its own.
C18_OtherWindowsUntouched ==
    [][/\ \A l \in OtherLabels : Entry(registry', l) = Entry(registry, l)
       /\ DOMAIN registry' \subseteq DOMAIN registry \cup {WindowLabel}]_vars

\* another window's flag is true and a third has none, while window "main" has
\* gone through install, a start and an end that cleared its own flag
C18_Witness ==
    /\ Entry(registry, "settings") = "true"
    /\ Entry(registry, "about") = "unset"
    /\ Entry(registry, WindowLabel) = "false"
    /\ lastHandled.kind \in EndKinds
    /\ lastHandled.dirty
    /\ regWriters # {}

=============================================================================
